---- MODULE Spec2Model ----
(***************************************************************************)
(* Student tracker (src/app.py): a sqlite store with the relations         *)
(* students and grades, the StudentTracker repository over it, and the     *)
(* Flask request handlers that call the repository.                        *)
(*                                                                         *)
(* Three specifications share the definitions below:                       *)
(*   SpecRepo   - the repository methods called directly, any arguments;   *)
(*   Spec       - the HTTP handlers, NumReqs requests in flight at once;   *)
(*   SpecSerial - the HTTP handlers, one request at a time, full forms.    *)
(***************************************************************************)
EXTENDS Integers, Sequences, FiniteSets, TLC

\* ---------------------------------------------------------------- bounds
MaxRoll == 2
MaxRows == 2
MaxBatch == 2
NumReqs == 2

\* ------------------------------------------------------- program constants
MinGrade == 0
MaxGrade == 100

\* Python None / SQL NULL where a text value is expected.
None == "<None>"

Rolls == 1..MaxRoll
Names == {"Alice", "Bob"}
Subjects == {"Math", "Science"}
GradeValues == {MinGrade, MaxGrade}

Min(a, b) == IF a <= b THEN a ELSE b

\* All sequences over S of length at most n.
SeqsUpTo(S, n) == UNION {[1..k -> S] : k \in 0..n}

\* ------------------------------------------------ text -> number (Python)
\* Form values that are parsed are sequences of one-character strings.
DigitVal == [c \in {"0", "1", "2", "3", "4", "5", "6", "7", "8", "9"} |->
               CASE c = "0" -> 0 [] c = "1" -> 1 [] c = "2" -> 2 [] c = "3" -> 3
                 [] c = "4" -> 4 [] c = "5" -> 5 [] c = "6" -> 6 [] c = "7" -> 7
                 [] c = "8" -> 8 [] c = "9" -> 9]

DigitChars == <<"0", "1", "2", "3", "4", "5", "6", "7", "8", "9">>

\* str(n) for an integer n.
RECURSIVE NatStr(_)
NatStr(n) == IF n < 10 THEN <<DigitChars[n + 1]>>
             ELSE NatStr(n \div 10) \o <<DigitChars[(n % 10) + 1]>>

Str(n) == IF n < 0 THEN <<"-">> \o NatStr(0 - n) ELSE NatStr(n)

RECURSIVE LStrip(_)
LStrip(s) == IF s # <<>> /\ Head(s) = " " THEN LStrip(Tail(s)) ELSE s

RECURSIVE RStrip(_)
RStrip(s) == IF s # <<>> /\ s[Len(s)] = " " THEN RStrip(SubSeq(s, 1, Len(s) - 1)) ELSE s

Strip(s) == RStrip(LStrip(s))

RECURSIVE DigitsValue(_)
DigitsValue(s) == IF s = <<>> THEN 0
                  ELSE 10 * DigitsValue(SubSeq(s, 1, Len(s) - 1)) + DigitVal[s[Len(s)]]

\* The signed decimal literal both int() and float() accept: surrounding
\* blanks, an optional sign, at least one digit.  ok = FALSE is ValueError.
Literal(s) ==
    LET t == Strip(s)
        signed == t # <<>> /\ Head(t) \in {"+", "-"}
        body == IF signed THEN Tail(t) ELSE t
        sign == IF signed /\ Head(t) = "-" THEN 0 - 1 ELSE 1
    IN  IF body = <<>> \/ \E i \in 1..Len(body) : body[i] \notin DOMAIN DigitVal
        THEN [ok |-> FALSE, val |-> 0]
        ELSE [ok |-> TRUE, val |-> sign * DigitsValue(body)]

\* int(text)
int(s) == Literal(s)

\* float(text), on decimal integer literals and "nan".  nan = TRUE is the
\* float NaN, which compares FALSE with every number.
float(s) ==
    IF Strip(s) = <<"n", "a", "n">>
    THEN [ok |-> TRUE, nan |-> TRUE, val |-> 0]
    ELSE [ok |-> Literal(s).ok, nan |-> FALSE, val |-> Literal(s).val]

OutOfRangeAboveOnly(f) == ~(~f.nan /\ f.val <= MaxGrade)
\* not 0 <= grade <= 100
OutOfRange(f) == ~(~f.nan /\ MinGrade <= f.val /\ f.val <= MaxGrade)

\* ------------------------------------------------------------------ state
VARIABLES
    students,   \* table students: roll_number (INTEGER PRIMARY KEY) -> name
    grades,     \* table grades: rows in rowid order
    inserted,   \* roll_numbers in the order their INSERTs were committed
    ret,        \* the last direct repository call and what it returned
    req         \* the requests: handler position, locals, connection, response

vars == <<students, grades, inserted, ret, req>>

\* ------------------------------------------------------------- repository
\* The students table is a set of rows [roll_number, name]; the grades table
\* a sequence of rows [roll_number, subject, grade] in rowid order.

RollNumbers(stbl) == {row.roll_number : row \in stbl}

StudentInsertSkipsKeyCheck(stbl, name, roll_number) == name = None
\* INSERT INTO students: IntegrityError on a NULL name (NOT NULL) or a
\* roll_number already in the table (PRIMARY KEY).
StudentInsertFails(stbl, name, roll_number) ==
    name = None \/ roll_number \in RollNumbers(stbl)

AddStudentNotStored(stbl, name, roll_number) ==
    IF StudentInsertFails(stbl, name, roll_number)
    THEN [ok |-> FALSE, msg |-> "Error: Roll number already exists.", students |-> stbl]
    ELSE [ok |-> TRUE, msg |-> "Student added successfully!", students |-> stbl]
\* StudentTracker.add_student
StudentTracker_add_student(stbl, name, roll_number) ==
    IF StudentInsertFails(stbl, name, roll_number)
    THEN [ok |-> FALSE, msg |-> "Error: Roll number already exists.", students |-> stbl]
    ELSE [ok |-> TRUE, msg |-> "Student added successfully!",
          students |-> stbl \cup {[roll_number |-> roll_number, name |-> name]}]

\* SELECT roll_number, name FROM students: a scan of the rowid table, whose
\* rowid is roll_number, so rows come in ascending roll_number.
RECURSIVE ScanStudents(_)
ScanStudents(rows) ==
    IF rows = {} THEN <<>>
    ELSE LET first == CHOOSE x \in rows : \A y \in rows : x.roll_number <= y.roll_number
         IN  <<first>> \o ScanStudents(rows \ {first})

ScanDescending(stbl) ==
    LET asc == ScanStudents(stbl)
    IN  [i \in 1..Len(asc) |-> asc[Len(asc) + 1 - i]]
\* StudentTracker.get_all_students
StudentTracker_get_all_students(stbl) == ScanStudents(stbl)

GetStudentNeverNone(stbl, roll_number) ==
    IF roll_number \in RollNumbers(stbl)
    THEN (CHOOSE row \in stbl : row.roll_number = roll_number).name
    ELSE ""
\* StudentTracker.get_student_by_roll: the name of the row, or None.
StudentTracker_get_student_by_roll(stbl, roll_number) ==
    IF roll_number \in RollNumbers(stbl)
    THEN (CHOOSE row \in stbl : row.roll_number = roll_number).name
    ELSE None

ZipFirstGrade(subjects, gs) ==
    [i \in 1..Min(Len(subjects), Len(gs)) |-> <<subjects[i], gs[1]>>]
\* zip(subjects, grades): stops at the shorter list.
zip(subjects, gs) ==
    [i \in 1..Min(Len(subjects), Len(gs)) |-> <<subjects[i], gs[i]>>]

\* INSERT INTO grades: IntegrityError on a NULL subject (NOT NULL); grades
\* are numbers here, never NULL.  The FOREIGN KEY is declared, but sqlite
\* enforces none unless PRAGMA foreign_keys is set, and the code never sets it.
GradeInsertFails(subject, grade) == subject = None

\* The for loop of add_grades inside the open transaction tx (the table as
\* the connection sees it): stops at the first failing INSERT.
RECURSIVE InsertLoop(_, _, _, _)
InsertLoop(tx, roll_number, pairs, i) ==
    IF i > Len(pairs) THEN [ok |-> TRUE, tx |-> tx, executed |-> i - 1]
    ELSE IF GradeInsertFails(pairs[i][1], pairs[i][2])
         THEN [ok |-> FALSE, tx |-> tx, executed |-> i - 1]
         ELSE InsertLoop(Append(tx, [roll_number |-> roll_number,
                                     subject |-> pairs[i][1],
                                     grade |-> pairs[i][2]]),
                         roll_number, pairs, i + 1)

\* db.commit(): the transaction's view becomes the table.
commit(committed, tx) == tx

RollbackKeepsRows(committed, tx) == tx
\* db.rollback(): the table is as it was when the transaction began.
rollback(committed, tx) == committed

\* StudentTracker.add_grades
StudentTracker_add_grades(tbl, roll_number, subjects, gs) ==
    LET run == InsertLoop(tbl, roll_number, zip(subjects, gs), 1)
    IN  IF run.ok
        THEN [ok |-> TRUE, msg |-> "Grades added successfully!",
              grades |-> commit(tbl, run.tx), executed |-> run.executed]
        ELSE [ok |-> FALSE, msg |-> "Error adding grades: NOT NULL constraint failed: grades.subject",
              grades |-> rollback(tbl, run.tx), executed |-> run.executed]

\* StudentTracker.get_subjects: SELECT DISTINCT subject FROM grades
StudentTracker_get_subjects(gtbl) == {gtbl[i].subject : i \in 1..Len(gtbl)}

\* students JOIN grades ON roll_number WHERE subject = ?: the grades rows of
\* the subject that have a students row.
JoinRows(stbl, gtbl, subject) ==
    {i \in 1..Len(gtbl) : gtbl[i].subject = subject /\ gtbl[i].roll_number \in RollNumbers(stbl)}

\* StudentTracker.get_subject_topper: ORDER BY grade DESC LIMIT 1 over the
\* join; <<>> is None, <<row>> the row.  Among equal grades sqlite yields
\* the first in scan order.
StudentTracker_get_subject_topper(stbl, gtbl, subject) ==
    LET J == JoinRows(stbl, gtbl, subject)
    IN  IF J = {} THEN <<>>
        ELSE LET top == CHOOSE i \in J : \A j \in J :
                            gtbl[i].grade > gtbl[j].grade
                            \/ (gtbl[i].grade = gtbl[j].grade /\ i <= j)
             IN  <<[name |-> StudentTracker_get_student_by_roll(stbl, gtbl[top].roll_number),
                   grade |-> gtbl[top].grade]>>

\* ------------------------------------------------- the repository, direct
NoRet == [op |-> "none", ok |-> TRUE, msg |-> "", executed |-> 0]

NoForm == [method |-> "", name |-> "", roll_number |-> <<>>, subject |-> "",
           subjects |-> <<>>, grades |-> <<>>]

\* A request slot: the view function and its position, the part of
\* request.form the view has still to read, the view's locals, g._database
\* (conn, with the number of sqlite3.connect calls and the connection's
\* total_changes), and the response.
NoReq == [route |-> "", pc |-> "idle", form |-> NoForm,
          name |-> "", roll_number |-> 0, subjects |-> <<>>, grades |-> <<>>,
          conn |-> "none", opened |-> 0, changes |-> 0,
          status |-> 0, msg |-> "", exc |-> ""]

Reqs == 1..NumReqs

Init ==
    /\ students = {}
    /\ grades = <<>>
    /\ inserted = <<>>
    /\ ret = NoRet
    /\ req = [r \in Reqs |-> NoReq]

\* tracker.add_student(name, roll_number) called on the repository.
Repo_add_student(name, roll_number) ==
    LET out == StudentTracker_add_student(students, name, roll_number)
    IN  /\ students' = out.students
        /\ inserted' = IF out.ok THEN Append(inserted, roll_number) ELSE inserted
        /\ ret' = [op |-> "add_student", ok |-> out.ok, msg |-> out.msg, executed |-> 0]
        /\ UNCHANGED <<grades, req>>

\* tracker.add_grades(roll_number, subjects, grades) called on the repository.
Repo_add_grades(roll_number, subjects, gs) ==
    LET out == StudentTracker_add_grades(grades, roll_number, subjects, gs)
    IN  /\ Len(out.grades) <= MaxRows
        /\ grades' = out.grades
        /\ ret' = [op |-> "add_grades", ok |-> out.ok, msg |-> out.msg,
                   executed |-> out.executed]
        /\ UNCHANGED <<students, inserted, req>>

RepoNames == {"Alice", None}
RepoSubjects == Subjects \cup {None}

RepoNext ==
    \/ \E name \in RepoNames, roll_number \in Rolls : Repo_add_student(name, roll_number)
    \/ \E roll_number \in Rolls, subjects \in SeqsUpTo(RepoSubjects, MaxBatch),
          gs \in SeqsUpTo(GradeValues, MaxBatch) :
            Repo_add_grades(roll_number, subjects, gs)

SpecRepo == Init /\ [][RepoNext]_vars

\* ------------------------------------------------------- request handlers
\* get_db(): connect on the first call of the request, reuse afterwards.
get_db(q) ==
    IF q.conn = "none"
    THEN [q EXCEPT !.conn = "open", !.opened = q.opened + 1]
    ELSE q

\* close_connection(exception)
close_connection(q) ==
    IF q.conn = "open" THEN [q EXCEPT !.conn = "closed"] ELSE q

\* The functions registered with app.teardown_appcontext: close_connection
\* is defined without the decorator, so none is.
TeardownFuncs == {}

\* What Flask runs when the application context of a request is popped.
do_teardown_appcontext(q) ==
    IF "close_connection" \in TeardownFuncs THEN close_connection(q) ELSE q

\* A request enters a free slot: a fresh context (empty g) with its form.
NewRequest(route, form) ==
    [NoReq EXCEPT !.route = route, !.pc = "running", !.form = form]

CanStart(r) == req[r].pc \in {"idle", "done"}

\* return body, status: nothing more is read from the form.
Return(q, status, msg) ==
    [q EXCEPT !.pc = "returned", !.form = NoForm, !.status = status, !.msg = msg]

\* An exception leaves the view function: Flask answers 500.
Raise(q, exc) ==
    [q EXCEPT !.pc = "returned", !.form = NoForm, !.status = 500, !.exc = exc]

\* Python truth of a text value or None.
Truthy(text) == text # None /\ text # ""

\* index(): GET /
index(r) ==
    /\ CanStart(r)
    /\ req' = [req EXCEPT ![r] =
                 Return(get_db(NewRequest("index", [NoForm EXCEPT !.method = "GET"])),
                        200, "index.html")]
    /\ UNCHANGED <<students, grades, inserted, ret>>

\* add_student(): POST /add_student
add_student(r, name, roll_str) ==
    LET q == get_db(NewRequest("add_student",
                 [NoForm EXCEPT !.method = "POST", !.name = name, !.roll_number = roll_str]))
        n == int(roll_str)
        out == StudentTracker_add_student(students, name, n.val)
        q2 == [q EXCEPT !.name = name, !.roll_number = n.val]
    IN  /\ CanStart(r)
        /\ IF ~Truthy(name) \/ roll_str = <<>>
           THEN /\ req' = [req EXCEPT ![r] =
                             Return(q, 400, "Name and Roll Number are required.")]
                /\ UNCHANGED <<students, inserted>>
           ELSE IF ~n.ok
           THEN /\ req' = [req EXCEPT ![r] = Raise(q, "ValueError")]
                /\ UNCHANGED <<students, inserted>>
           ELSE /\ students' = out.students
                /\ inserted' = IF out.ok THEN Append(inserted, n.val) ELSE inserted
                /\ req' = [req EXCEPT ![r] =
                             IF out.ok
                             THEN Return([q2 EXCEPT !.changes = q.changes + 1], 302, "/")
                             ELSE Return(q2, 400, out.msg)]
        /\ UNCHANGED <<grades, ret>>

\* add_grades(), up to the student check: POST /add_grades
add_grades_check(r, roll_str, subjects, grades_str) ==
    LET q == get_db(NewRequest("add_grades",
                 [NoForm EXCEPT !.method = "POST", !.roll_number = roll_str,
                                !.subjects = subjects, !.grades = grades_str]))
        n == int(roll_str)
    IN  /\ CanStart(r)
        /\ req' = [req EXCEPT ![r] =
                     IF ~n.ok THEN Raise(q, "ValueError")
                     ELSE IF StudentTracker_get_student_by_roll(students, n.val) = None
                     THEN Return([q EXCEPT !.roll_number = n.val], 404, "Student not found.")
                     ELSE [q EXCEPT !.roll_number = n.val, !.pc = "checked"]]
        /\ UNCHANGED <<students, grades, inserted, ret>>

\* The validation loop of add_grades over request.form.getlist('grade'):
\* status 0 when every grade passed, else the 400 of the first that did not;
\* grades is the local list as the loop left it.
RECURSIVE ValidateGrades(_, _, _)
ValidateGrades(grades_str, i, acc) ==
    IF i > Len(grades_str) THEN [status |-> 0, msg |-> "", grades |-> acc]
    ELSE LET f == float(grades_str[i])
         IN  IF ~f.ok
             THEN [status |-> 400, msg |-> "Grades must be numeric.", grades |-> acc]
             ELSE IF OutOfRange(f)
             THEN [status |-> 400, msg |-> "Grades must be between 0 and 100.",
                   grades |-> acc]
             ELSE ValidateGrades(grades_str, i + 1, Append(acc, f.val))

\* add_grades(), from the validation loop to the response.
add_grades_insert(r) ==
    LET q == req[r]
        v == ValidateGrades(q.form.grades, 1, <<>>)
        out == StudentTracker_add_grades(grades, q.roll_number, q.form.subjects, v.grades)
        q2 == [q EXCEPT !.subjects = q.form.subjects, !.grades = v.grades]
    IN  /\ q.pc = "checked"
        /\ IF v.status # 0
           THEN /\ req' = [req EXCEPT ![r] = Return(q2, v.status, v.msg)]
                /\ UNCHANGED grades
           ELSE /\ Len(out.grades) <= MaxRows
                /\ grades' = out.grades
                /\ req' = [req EXCEPT ![r] =
                             LET q3 == [q2 EXCEPT !.changes = q.changes + out.executed]
                             IN  IF out.ok THEN Return(q3, 302, "/")
                                 ELSE Return(q3, 500, out.msg)]
        /\ UNCHANGED <<students, inserted, ret>>

\* view_details(): GET|POST /view_details
view_details(r, method, roll_str) ==
    LET q == get_db(NewRequest("view_details",
                 [NoForm EXCEPT !.method = method, !.roll_number = roll_str]))
        n == int(roll_str)
        name == StudentTracker_get_student_by_roll(students, n.val)
    IN  /\ CanStart(r)
        /\ req' = [req EXCEPT ![r] =
                     IF method # "POST" THEN Return(q, 302, "/")
                     ELSE IF ~n.ok THEN Raise(q, "ValueError")
                     ELSE IF Truthy(name)
                     THEN Return([q EXCEPT !.name = name, !.roll_number = n.val], 200,
                                 "student_details.html")
                     ELSE Return([q EXCEPT !.roll_number = n.val], 404,
                                 "Student not found.")]
        /\ UNCHANGED <<students, grades, inserted, ret>>

\* subject_topper(): POST /subject_topper
subject_topper(r, subject) ==
    LET q == get_db(NewRequest("subject_topper",
                 [NoForm EXCEPT !.method = "POST", !.subject = subject]))
        topper == StudentTracker_get_subject_topper(students, grades, subject)
    IN  /\ CanStart(r)
        /\ req' = [req EXCEPT ![r] =
                     IF topper # <<>> THEN Return(q, 200, "The topper in")
                     ELSE Return(q, 404, "No grades found for subject")]
        /\ UNCHANGED <<students, grades, inserted, ret>>

\* What becomes of a connection nothing closed once g and the view's locals
\* are dropped: the interpreter may finalize it (sqlite3 then closes it), or
\* a reference kept elsewhere (a stored traceback, a cycle) keeps it open.
Unreferenced(q, collected) ==
    IF collected /\ q.conn = "open" THEN [q EXCEPT !.conn = "closed"] ELSE q

\* The request ends: the response is sent, the teardown functions run, and
\* the request's context (its form and the view's locals) is gone; what is
\* left of the request is its connection.
end_request(r, collected) ==
    /\ req[r].pc = "returned"
    /\ req' = [req EXCEPT ![r] =
                 LET q == Unreferenced(do_teardown_appcontext(req[r]), collected)
                 IN  [NoReq EXCEPT !.pc = "done", !.conn = q.conn,
                                   !.opened = q.opened, !.changes = q.changes]]
    /\ UNCHANGED <<students, grades, inserted, ret>>

\* ---------------------------------------------------------- form values
RollStrs == {Str(n) : n \in Rolls} \cup {<<>>, <<"x">>}
FormNames == Names \cup {""}
GradeStrs == {Str(MinGrade), Str(MaxGrade), Str(MinGrade - 1), Str(MaxGrade + 1),
              <<"x">>, <<"n", "a", "n">>}
Methods == {"GET", "POST"}

\* What one request in slot r may do, its form values drawn from the given sets.
Handlers(r, NameSet, SubjectLists, GradeLists) ==
    \/ index(r)
    \/ \E name \in NameSet, roll_str \in RollStrs : add_student(r, name, roll_str)
    \/ \E roll_str \in RollStrs, subjects \in SubjectLists, grades_str \in GradeLists :
          add_grades_check(r, roll_str, subjects, grades_str)
    \/ add_grades_insert(r)
    \/ \E method \in Methods, roll_str \in RollStrs : view_details(r, method, roll_str)
    \/ \E subject \in Subjects : subject_topper(r, subject)
    \/ \E collected \in BOOLEAN : end_request(r, collected)

\* One worker, one request at a time, every list of subjects and grades.
SerialNext ==
    Handlers(1, {"", "Alice"}, SeqsUpTo(Subjects, MaxBatch), SeqsUpTo(GradeStrs, MaxBatch))

SpecSerial == Init /\ [][SerialNext]_vars

\* NumReqs requests in flight together, their steps interleaved; each
\* add_grades form carries one subject and one grade.
SubjectLists1 == {<<"Math">>}
GradeLists1 == {<<Str(MaxGrade)>>, <<Str(MaxGrade + 1)>>, <<Str(MinGrade - 1)>>}

Next == \E r \in Reqs : Handlers(r, FormNames, SubjectLists1, GradeLists1)

Spec == Init /\ [][Next]_vars

\* ------------------------------------------------------ repository claims
IsPrefix(a, b) == Len(a) <= Len(b) /\ SubSeq(b, 1, Len(a)) = a

GradeRow(roll_number, pair) ==
    [roll_number |-> roll_number, subject |-> pair[1], grade |-> pair[2]]

\* Whether some INSERT of the batch violates a constraint of the grades table.
BatchFails(pairs) == \E i \in 1..Len(pairs) : pairs[i][1] = None

\* C1: add_grades is all-or-nothing.  Whenever the repository's add_grades
\* runs: if some insert of the batch fails, the grades table is exactly what
\* it was before the call and the call returns failure with the cause in its
\* message; if none fails, the table is the old one followed by one row per
\* pair of the batch, in order, and the call returns success.
C1_AddGradesAllOrNothing ==
    [][\A roll_number \in Rolls, subjects \in SeqsUpTo(RepoSubjects, MaxBatch),
          gs \in SeqsUpTo(GradeValues, MaxBatch) :
          (ret'.op = "add_grades" /\ Repo_add_grades(roll_number, subjects, gs)) =>
            LET pairs == zip(subjects, gs)
            IN  IF BatchFails(pairs)
                THEN /\ grades' = grades
                     /\ ~ret'.ok
                     /\ ret'.msg = "Error adding grades: NOT NULL constraint failed: grades.subject"
                ELSE /\ ret'.ok
                     /\ grades' = grades \o [i \in 1..Len(pairs) |->
                                               GradeRow(roll_number, pairs[i])]]_vars

\* A batch failed after an insert of the same call had gone through, with
\* rows of earlier calls in the table.
C1_Witness ==
    /\ ret.op = "add_grades"
    /\ ~ret.ok
    /\ ret.executed >= 1
    /\ Len(grades) >= 1

SubjectRows(subject) == {i \in 1..Len(grades) : grades[i].subject = subject}

\* C5: in every store state the repository operations reach, and for every
\* subject, get_subject_topper is absent exactly when grades holds no row of
\* the subject, and otherwise its grade is the maximum grade of the subject's
\* rows and its name is the name of a student holding a row with that grade.
C5_TopperIsMaximum ==
    \A subject \in Subjects :
        LET t == StudentTracker_get_subject_topper(students, grades, subject)
            rows == SubjectRows(subject)
        IN  /\ (t = <<>>) <=> (rows = {})
            /\ t # <<>> =>
                 /\ \A i \in rows : grades[i].grade <= t[1].grade
                 /\ \E i \in rows :
                      /\ grades[i].grade = t[1].grade
                      /\ [roll_number |-> grades[i].roll_number, name |-> t[1].name]
                            \in students

RollSeq(rows) == [i \in 1..Len(rows) |-> rows[i].roll_number]

\* C7 as stated: get_all_students returns the students in the order in which
\* their add_student calls succeeded.
C7_InsertionOrder ==
    RollSeq(StudentTracker_get_all_students(students)) = inserted

\* C7 amended: get_all_students returns every inserted student exactly once,
\* in ascending roll_number order, whatever the order of insertion.
C7_RollNumberOrder ==
    LET all == StudentTracker_get_all_students(students)
    IN  /\ \A i, j \in 1..Len(all) : i < j => all[i].roll_number < all[j].roll_number
        /\ {all[i] : i \in 1..Len(all)} = students
        /\ {all[i].roll_number : i \in 1..Len(all)} = {inserted[i] : i \in 1..Len(inserted)}
        /\ Len(all) = Len(inserted)

\* Two students were inserted with the larger roll_number first.
C7_Witness ==
    /\ Len(inserted) >= 2
    /\ inserted[1] > inserted[2]

\* --------------------------------------------------------- handler claims
\* The step in which add_grades of slot r runs from its validation loop to
\* its response.
InsertStep(r) == req[r].pc = "checked" /\ req'[r].pc = "returned"

\* The step in which slot r takes a new request for the view function route.
Began(r, route) ==
    CanStart(r) /\ req'[r].pc \in {"checked", "returned"} /\ req'[r].route = route

StoreUnchanged == students' = students /\ grades' = grades

\* A grade field float() turns into a number.
NumericGrade(s) == float(s).ok /\ ~float(s).nan

\* C2: a POST /add_grades naming an existing student, all of whose grade
\* fields are numeric, is answered 400 if and only if some grade g has g < 0
\* or g > 100; and a request answered 400 inserted no row (its connection
\* changed nothing), leaving students, grades and the subject set as they were.
C2_RejectedIffOutOfRange ==
    [][\A r \in Reqs :
          LET gs == req[r].form.grades
          IN  (InsertStep(r) /\ \A i \in 1..Len(gs) : NumericGrade(gs[i])) =>
                /\ (req'[r].status = 400) <=>
                     (\E i \in 1..Len(gs) :
                          float(gs[i]).val < MinGrade \/ float(gs[i]).val > MaxGrade)
                /\ req'[r].status = 400 =>
                     /\ StoreUnchanged
                     /\ req'[r].changes = 0
                     /\ StudentTracker_get_subjects(grades')
                          = StudentTracker_get_subjects(grades)]_vars

\* A request was rejected for a grade out of range after an in-range grade
\* of the same form had passed the loop.
C2_Witness ==
    \E r \in Reqs :
        /\ req[r].route = "add_grades"
        /\ req[r].pc = "returned"
        /\ req[r].status = 400
        /\ req[r].msg = "Grades must be between 0 and 100."
        /\ Len(req[r].grades) >= 1
        /\ req[r].changes = 0

UniqueRolls(stbl) == Cardinality(RollNumbers(stbl)) = Cardinality(stbl)

\* C3: a POST /add_student whose roll_number is already in students leaves
\* students and grades exactly as they were (the stored name stays), the
\* repository reports failure with the conflict message, and the handler
\* answers 400; and roll_number stays unique across students.
C3_DuplicateRollRejected ==
    [][/\ \A r \in Reqs, name \in FormNames, roll_str \in RollStrs :
            (/\ Began(r, "add_student")
             /\ add_student(r, name, roll_str)
             /\ int(roll_str).ok
             /\ int(roll_str).val \in RollNumbers(students)) =>
                /\ StoreUnchanged
                /\ req'[r].status = 400
                /\ req'[r].exc = ""
                /\ Truthy(name) =>
                     /\ ~StudentTracker_add_student(students, name, int(roll_str).val).ok
                     /\ req'[r].msg = "Error: Roll number already exists."
       /\ UniqueRolls(students')]_vars

\* An add_student naming a stored roll_number with another name was answered
\* 400 with the conflict message.
C3_Witness ==
    \E r \in Reqs :
        /\ req[r].route = "add_student"
        /\ req[r].status = 400
        /\ req[r].msg = "Error: Roll number already exists."
        /\ \E row \in students :
              row.roll_number = req[r].roll_number /\ row.name # req[r].name

\* C4: a POST /add_student with a non-empty name and an integer roll_number
\* not yet in students succeeds, and from then on get_student_by_roll gives
\* that name and get_all_students lists (roll_number, name): no step changes
\* or removes a students row; and POST /view_details for a stored roll_number
\* renders the detail view with the stored name, not the 404.
C4_AddedStudentRetrievable ==
    [][/\ \A r \in Reqs, name \in Names, roll_str \in RollStrs :
            (/\ Began(r, "add_student")
             /\ add_student(r, name, roll_str)
             /\ int(roll_str).ok
             /\ int(roll_str).val \notin RollNumbers(students)) =>
                LET all == StudentTracker_get_all_students(students')
                IN  /\ req'[r].status = 302
                    /\ StudentTracker_get_student_by_roll(students', int(roll_str).val) = name
                    /\ \E i \in 1..Len(all) :
                          all[i] = [roll_number |-> int(roll_str).val, name |-> name]
       /\ \A row \in students :
            StudentTracker_get_student_by_roll(students', row.roll_number) = row.name
       /\ \A r \in Reqs, roll_str \in RollStrs :
            (/\ Began(r, "view_details")
             /\ view_details(r, "POST", roll_str)
             /\ int(roll_str).ok
             /\ int(roll_str).val \in RollNumbers(students)) =>
                /\ req'[r].status = 200
                /\ req'[r].msg = "student_details.html"
                /\ req'[r].name
                     = StudentTracker_get_student_by_roll(students, int(roll_str).val)]_vars

\* The detail view was rendered for a student an add_student request stored.
C4_Witness ==
    \E r, o \in Reqs :
        /\ req[r].route = "view_details"
        /\ req[r].status = 200
        /\ req[o].route = "add_student"
        /\ req[o].status = 302
        /\ req[o].roll_number = req[r].roll_number
        /\ req[o].name = req[r].name

\* C6: every request that got a connection from get_db has it closed when
\* the request has ended, whatever the response was, and no request opens
\* more than one connection.
C6_ConnectionClosedAtEnd ==
    \A r \in Reqs :
        /\ req[r].opened <= 1
        /\ req[r].pc = "done" => req[r].conn # "open"

Answered400(q) == q.status = 400 /\ q.msg # "" /\ q.exc = ""

\* C8: every POST /add_student, /add_grades or /view_details whose input
\* fails validation (an empty name or roll_number, a roll_number that is no
\* integer literal, a grade that is not numeric or out of range) is answered
\* 400 with a message, leaves students and grades unchanged, and ends in no
\* unhandled exception.
C8_InvalidInputAnswered400 ==
    [][/\ \A r \in Reqs, name \in FormNames, roll_str \in RollStrs :
            (/\ add_student(r, name, roll_str)
             /\ (name = "" \/ roll_str = <<>> \/ ~int(roll_str).ok)) =>
                Answered400(req'[r]) /\ StoreUnchanged
       /\ \A r \in Reqs, roll_str \in RollStrs, subjects \in SubjectLists1,
             grades_str \in GradeLists1 :
            (add_grades_check(r, roll_str, subjects, grades_str) /\ ~int(roll_str).ok) =>
                Answered400(req'[r]) /\ StoreUnchanged
       /\ \A r \in Reqs :
            (/\ InsertStep(r)
             /\ \E i \in 1..Len(req[r].form.grades) :
                   \/ ~NumericGrade(req[r].form.grades[i])
                   \/ float(req[r].form.grades[i]).val < MinGrade
                   \/ float(req[r].form.grades[i]).val > MaxGrade) =>
                Answered400(req'[r]) /\ StoreUnchanged
       /\ \A r \in Reqs, roll_str \in RollStrs :
            (view_details(r, "POST", roll_str) /\ ~int(roll_str).ok) =>
                Answered400(req'[r]) /\ StoreUnchanged]_vars

GradesWellFormed(stbl, gtbl) ==
    \A i \in 1..Len(gtbl) :
        /\ gtbl[i].roll_number \in RollNumbers(stbl)
        /\ MinGrade <= gtbl[i].grade
        /\ gtbl[i].grade <= MaxGrade

\* C9: after any interleaving of requests from the empty store, every grades
\* row has the roll_number of a students row and a grade within [0, 100];
\* and a POST /add_grades for a roll_number without a students row is
\* answered 404 and inserts nothing.
C9_GradesReferenceStudents ==
    [][/\ GradesWellFormed(students', grades')
       /\ \A r \in Reqs, roll_str \in RollStrs, subjects \in SubjectLists1,
             grades_str \in GradeLists1 :
            (/\ Began(r, "add_grades")
             /\ add_grades_check(r, roll_str, subjects, grades_str)
             /\ int(roll_str).ok
             /\ int(roll_str).val \notin RollNumbers(students)) =>
                /\ req'[r].status = 404
                /\ req'[r].pc = "returned"
                /\ req'[r].changes = 0
                /\ StoreUnchanged
       /\ \A r \in Reqs :
            (req[r].route = "add_grades" /\ req[r].status = 404) => req[r].changes = 0]_vars

\* While one add_grades request was answered 404, another had its row stored.
C9_Witness ==
    \E r, o \in Reqs :
        /\ req[r].route = "add_grades"
        /\ req[r].status = 404
        /\ req[o].route = "add_grades"
        /\ req[o].status = 302
        /\ req[o].changes >= 1
        /\ Len(grades) >= 1

\* C10: every POST /add_grades that ends in the redirect adds exactly one
\* grades row for each subject field of the request, the i-th subject with
\* the i-th grade, whatever the numbers of subject and grade fields are; and
\* no step changes or removes a grades row that exists.
C10_OneRowPerSubject ==
    [][/\ \A r \in Reqs :
            (InsertStep(r) /\ req'[r].status = 302) =>
                LET subjects == req[r].form.subjects
                    gs == req[r].form.grades
                IN  /\ Len(grades') = Len(grades) + Len(subjects)
                    /\ \A i \in 1..Len(subjects) :
                          /\ i <= Len(gs)
                          /\ grades'[Len(grades) + i] =
                               GradeRow(req[r].roll_number, <<subjects[i], float(gs[i]).val>>)
       /\ IsPrefix(grades, grades')]_vars

\* C10 amended: every POST /add_grades that ends in the redirect adds exactly
\* one grades row for each of the first min(number of subject fields, number
\* of grade fields) positions, the i-th subject with the i-th grade, after
\* the rows that were there (so one row per subject only when there are at
\* least as many grade fields as subject fields); and no step changes or
\* removes a grades row that exists.
C10_OneRowPerPair ==
    [][/\ \A r \in Reqs :
            (InsertStep(r) /\ req'[r].status = 302) =>
                LET subjects == req[r].form.subjects
                    gs == req[r].form.grades
                    n == Min(Len(subjects), Len(gs))
                IN  /\ grades' = grades \o
                          [i \in 1..n |->
                             GradeRow(req[r].roll_number, <<subjects[i], float(gs[i]).val>>)]
                    /\ req'[r].changes = n
       /\ IsPrefix(grades, grades')]_vars

\* A request with two subject fields and one grade field ended in the
\* redirect, having inserted one row.
C10_Witness ==
    \E r \in Reqs :
        /\ req[r].route = "add_grades"
        /\ req[r].pc = "returned"
        /\ req[r].status = 302
        /\ Len(req[r].subjects) = 2
        /\ Len(req[r].grades) = 1
        /\ req[r].changes = 1

====
